---- MODULE Spec2Model ----
(***************************************************************************)
(* Currency rate monitor: threshold evaluation (ThresholdChecker), the     *)
(* cooldown cache (NotificationCache), alert dispatch with one retry       *)
(* (NotificationService) and the scheduler that drives check cycles        *)
(* (Scheduler).                                                            *)
(*                                                                         *)
(* Time is counted in whole minutes.  Rates and thresholds are counted in  *)
(* tenths (8.5 is 85).  Every await of the source is a point where other   *)
(* callbacks may run, so every await separates two actions.                *)
(***************************************************************************)
EXTENDS Integers, Sequences, FiniteSets, TLC

VARIABLES
    now,              \* wall clock, minutes (new Date())
    cooldownMinutes,  \* config.notification.cooldownMinutes
    cache,            \* NotificationCache.cache : Map<condition, record>
    isRunning,        \* Scheduler.isRunning
    cronTask,         \* Scheduler.cronTask : 0 is null, else the task's id
    task,             \* node-cron tasks, one per start() call that registered one
    start,            \* the start() calls
    stops,            \* number of stop() calls made
    cycle,            \* the executeCheck() invocations in progress
    last,             \* the executeCheck() invocation that returned last
    lastDelivery,     \* per condition, when an email was last delivered (-1: never)
    chk               \* one direct call of ThresholdChecker or NotificationCache

vars == <<now, cooldownMinutes, cache, isRunning, cronTask, task, start, stops, cycle,
          last, lastDelivery, chk>>

\* Everything but the ThresholdChecker call under test.
monitor == <<now, cooldownMinutes, cache, isRunning, cronTask, task, start, stops, cycle,
             last, lastDelivery>>

---------------------------------------------------------------------------
\* Bounds of the model.

MaxCycles == 2
MaxStarts == 2
MaxStops == 1
MaxTime == 6
MaxCooldown == 2
MaxRate == 6

\* sleep(5 * 60 * 1000)
RetryDelayMinutes == 5

\* fetchCurrentRate() returned null
null == -1

\* a conversion_rate that is not a number (undefined, NaN)
NaN == -2

Conditions == {"above_upper", "below_lower"}

\* config.thresholds of the running monitor, in tenths (upper 8.5, lower 8.0)
thresholds == [upper |-> 85, lower |-> 80]

\* What one fetch may yield: null, or a reading with this conversionRate.
FetchResults == {null, NaN, 79, 80, 85, 86}

\* What one resendClient.emails.send call may do: resolve with data ("ok"),
\* resolve with an error object ("error"), or reject ("throw").
SendOutcomes == {"ok", "error", "throw"}

CycleIds == 1..MaxCycles
StartIds == 1..MaxStarts

---------------------------------------------------------------------------
\* ThresholdChecker

\* JavaScript's > and < : false whenever an operand is not a number.
JsGreater(a, b) == a # NaN /\ b # NaN /\ a > b
JsLess(a, b) == a # NaN /\ b # NaN /\ a < b

NoMessage == [present |-> FALSE, rate |-> 0, threshold |-> 0]

formatMessage(conversionRate, th, condition) ==
    IF condition = "above_upper"
    THEN [present |-> TRUE, rate |-> conversionRate, threshold |-> th.upper]
    ELSE [present |-> TRUE, rate |-> conversionRate, threshold |-> th.lower]

\* check with its two comparisons exchanged.
checkSwapped(conversionRate, th) ==
    IF JsLess(conversionRate, th.upper)
    THEN [shouldNotify |-> TRUE, condition |-> "above_upper",
          message |-> formatMessage(conversionRate, th, "above_upper")]
    ELSE IF JsGreater(conversionRate, th.lower)
    THEN [shouldNotify |-> TRUE, condition |-> "below_lower",
          message |-> formatMessage(conversionRate, th, "below_lower")]
    ELSE [shouldNotify |-> FALSE, condition |-> "none", message |-> NoMessage]

\* check with the bounds taken as breaches (>= and <=).
checkInclusive(conversionRate, th) ==
    IF conversionRate # NaN /\ conversionRate >= th.upper
    THEN [shouldNotify |-> TRUE, condition |-> "above_upper",
          message |-> formatMessage(conversionRate, th, "above_upper")]
    ELSE IF conversionRate # NaN /\ conversionRate <= th.lower
    THEN [shouldNotify |-> TRUE, condition |-> "below_lower",
          message |-> formatMessage(conversionRate, th, "below_lower")]
    ELSE [shouldNotify |-> FALSE, condition |-> "none", message |-> NoMessage]

check(conversionRate, th) ==
    IF JsGreater(conversionRate, th.upper)
    THEN [shouldNotify |-> TRUE, condition |-> "above_upper",
          message |-> formatMessage(conversionRate, th, "above_upper")]
    ELSE IF JsLess(conversionRate, th.lower)
    THEN [shouldNotify |-> TRUE, condition |-> "below_lower",
          message |-> formatMessage(conversionRate, th, "below_lower")]
    ELSE [shouldNotify |-> FALSE, condition |-> "none", message |-> NoMessage]

\* One call of check: its input, and its result once it has returned.
NoResult == [shouldNotify |-> FALSE, condition |-> "none", message |-> NoMessage]

CheckInputs ==
    {[rate |-> r, lower |-> l, upper |-> u, applied |-> FALSE, result |-> NoResult] :
        r \in 0..MaxRate, l \in 0..MaxRate, u \in 0..MaxRate}

CheckCall ==
    /\ ~chk.applied
    /\ chk.lower < chk.upper
    /\ UNCHANGED monitor
    /\ chk' = [chk EXCEPT !.applied = TRUE,
                          !.result = check(chk.rate, [upper |-> chk.upper, lower |-> chk.lower])]

CheckNewInput ==
    /\ chk.applied
    /\ UNCHANGED monitor
    /\ chk' \in {c \in CheckInputs : c.lower < c.upper}

---------------------------------------------------------------------------
\* NotificationCache

\* canSend with the boundary excluded (>).
canSendStrict(condition, cooldown) ==
    IF condition \notin DOMAIN cache
    THEN TRUE
    ELSE LET timeDiffMinutes == now - cache[condition].timestamp
         IN  timeDiffMinutes > cooldown

\* canSend that is false whenever a record exists and no time has passed.
canSendAfterAMinute(condition, cooldown) ==
    IF condition \notin DOMAIN cache
    THEN TRUE
    ELSE LET timeDiffMinutes == now - cache[condition].timestamp
         IN  timeDiffMinutes >= cooldown /\ timeDiffMinutes > 0

canSend(condition, cooldown) ==
    IF condition \notin DOMAIN cache
    THEN TRUE
    ELSE LET timeDiffMinutes == now - cache[condition].timestamp
         IN  timeDiffMinutes >= cooldown

\* record that keeps an existing record instead of overwriting it.
recordKeepsFirst(condition) ==
    [k \in (DOMAIN cache) \cup {condition} |->
        IF k \in DOMAIN cache
        THEN cache[k]
        ELSE [condition |-> condition, timestamp |-> now]]

\* record that drops the records of the other conditions.
recordClearsOthers(condition) ==
    [k \in {condition} |-> [condition |-> condition, timestamp |-> now]]

\* record that adds a second record for a condition that has one.
recordAppends(condition) ==
    LET key == IF condition \notin DOMAIN cache THEN condition
               ELSE IF condition = "above_upper" THEN "above_upper#2" ELSE "below_lower#2"
    IN  [k \in (DOMAIN cache) \cup {key} |->
            IF k = key
            THEN [condition |-> condition, timestamp |-> now]
            ELSE cache[k]]

\* record that stamps the time at which the retry wait began.
recordBackdated(condition) ==
    [k \in (DOMAIN cache) \cup {condition} |->
        IF k = condition
        THEN [condition |-> condition,
              timestamp |-> IF now >= RetryDelayMinutes THEN now - RetryDelayMinutes ELSE now]
        ELSE cache[k]]

record(condition) ==
    [k \in (DOMAIN cache) \cup {condition} |->
        IF k = condition
        THEN [condition |-> condition, timestamp |-> now]
        ELSE cache[k]]

\* cleanup with the boundary excluded (>).
cleanupStrict(cooldown) ==
    LET keysToDelete == {key \in DOMAIN cache : now - cache[key].timestamp > cooldown}
    IN  [k \in (DOMAIN cache) \ keysToDelete |-> cache[k]]

\* cleanup that deletes every record.
cleanupClears(cooldown) ==
    [k \in {} |-> cache[k]]

cleanup(cooldown) ==
    LET keysToDelete == {key \in DOMAIN cache : now - cache[key].timestamp >= cooldown}
    IN  [k \in (DOMAIN cache) \ keysToDelete |-> cache[k]]

\* One call on the cache: the operation, its arguments, the time of the call,
\* the cache before the call and the result (canSend's, and size's count).
NoCall ==
    [op |-> "none", condition |-> "none", cooldown |-> 0, at |-> 0,
     before |-> <<>>, result |-> TRUE, count |-> 0]

CooldownArgs == 0..MaxCooldown

\* canSend that deletes the record it found expired.
CanSendCallEvicting(c, m) ==
    /\ chk' = [op |-> "canSend", condition |-> c, cooldown |-> m, at |-> now,
               before |-> cache, result |-> canSend(c, m), count |-> 0]
    /\ cache' = IF canSend(c, m) THEN [k \in (DOMAIN cache) \ {c} |-> cache[k]] ELSE cache
    /\ UNCHANGED <<now, cooldownMinutes, isRunning, cronTask, task, start, stops, cycle,
                   last, lastDelivery>>

CanSendCall(c, m) ==
    /\ chk' = [op |-> "canSend", condition |-> c, cooldown |-> m, at |-> now,
               before |-> cache, result |-> canSend(c, m), count |-> 0]
    /\ UNCHANGED monitor

RecordCall(c) ==
    /\ cache' = record(c)
    /\ chk' = [op |-> "record", condition |-> c, cooldown |-> 0, at |-> now,
               before |-> cache, result |-> TRUE, count |-> 0]
    /\ UNCHANGED <<now, cooldownMinutes, isRunning, cronTask, task, start, stops, cycle,
                   last, lastDelivery>>

CleanupCall(m) ==
    /\ cache' = cleanup(m)
    /\ chk' = [op |-> "cleanup", condition |-> "none", cooldown |-> m, at |-> now,
               before |-> cache, result |-> TRUE, count |-> 0]
    /\ UNCHANGED <<now, cooldownMinutes, isRunning, cronTask, task, start, stops, cycle,
                   last, lastDelivery>>

\* this.cache.size
size == Cardinality(DOMAIN cache)

\* clear that keeps the records still younger than a minute.
clearKeepsNewest ==
    [k \in {c \in DOMAIN cache : cache[c].timestamp = now} |-> cache[k]]

\* this.cache.clear()
clear == <<>>

SizeCall ==
    /\ chk' = [op |-> "size", condition |-> "none", cooldown |-> 0, at |-> now,
               before |-> cache, result |-> TRUE, count |-> size]
    /\ UNCHANGED monitor

ClearCall ==
    /\ cache' = clear
    /\ chk' = [op |-> "clear", condition |-> "none", cooldown |-> 0, at |-> now,
               before |-> cache, result |-> TRUE, count |-> 0]
    /\ UNCHANGED <<now, cooldownMinutes, isRunning, cronTask, task, start, stops, cycle,
                   last, lastDelivery>>

\* A minute passes between two calls.
Elapse ==
    /\ now < MaxTime
    /\ now' = now + 1
    /\ UNCHANGED <<cooldownMinutes, cache, isRunning, cronTask, task, start, stops, cycle,
                   last, lastDelivery, chk>>

---------------------------------------------------------------------------
\* NotificationService

\* shouldSendNotification that does not consult the cache.
shouldSendAlways(condition) == condition = condition

shouldSendNotification(condition) == canSend(condition, cooldownMinutes)

---------------------------------------------------------------------------
\* Configuration and log output.  A log entry is its level, its message and
\* the configuration values its text contains.

config ==
    [exchangeRate |-> [apiUrl |-> "https://api.example.com", apiKey |-> "exchange-key",
                       baseCurrency |-> "EUR", targetCurrency |-> "CNY"],
     notification |-> [resendApiKey |-> "resend-key", fromEmail |-> "from@example.com",
                       toEmail |-> "to@example.com"],
     logging |-> [level |-> "info"]]

\* RateService.buildApiUrl: the parts of `${apiUrl}/${apiKey}/pair/${base}/${target}`.
buildApiUrl ==
    <<config.exchangeRate.apiUrl, config.exchangeRate.apiKey, "pair",
      config.exchangeRate.baseCurrency, config.exchangeRate.targetCurrency>>

Entry(level, msg, values) == [level |-> level, msg |-> msg, values |-> values]

\* What RateService.fetchCurrentRate writes for the result r.
FetchLog(r) ==
    {Entry("info", "Fetching rate from", {buildApiUrl[k] : k \in DOMAIN buildApiUrl})}
    \cup (IF r = null
          THEN {Entry("error", "RateService request failed", {})}
          ELSE {Entry("info", "Successfully fetched rate", {})})

\* What sendWithRetry writes for the outcomes o1, o2 of its attempts.
SendLog(o1, o2) ==
    IF o1 # "throw"
    THEN {Entry("info", "Email sent successfully", {config.notification.toEmail})}
    ELSE {Entry("error", "First attempt to send email failed", {}),
          Entry("info", "Waiting 5 minutes before retry", {})}
         \cup (IF o2 # "throw"
               THEN {Entry("info", "Email sent successfully on retry",
                           {config.notification.toEmail})}
               ELSE {Entry("error", "Retry attempt to send email failed", {})})

\* What one executeCheck invocation, with the services it calls, has
\* written when it returns.
CycleLog(rate, outcome, o1, o2) ==
    {Entry("info", "Starting rate check cycle", {})} \cup FetchLog(rate)
    \cup
    (IF outcome = "nodata"
     THEN {Entry("error", "Failed to fetch rate data, skipping this check cycle", {})}
     ELSE {Entry("info", "Rate check completed", {config.exchangeRate.baseCurrency,
                                                  config.exchangeRate.targetCurrency})}
          \cup
          (IF outcome = "inrange"
           THEN {Entry("info", "Rate is within acceptable thresholds, no notification needed", {})}
           ELSE {Entry("info", "Threshold exceeded, sending notification", {})}
                \cup
                (IF outcome = "suppressed"
                 THEN {Entry("info", "Notification is in cooldown period, skipping", {})}
                 ELSE SendLog(o1, o2))
                \cup
                (IF outcome = "failed"
                 THEN {Entry("error", "Error during rate check cycle", {})}
                 ELSE (IF outcome = "sent"
                       THEN {Entry("info", "Alert sent successfully", {})}
                       ELSE {})
                      \cup
                      {Entry("info", "Email notification sent", {config.notification.toEmail}),
                       Entry("info", "Rate check cycle completed successfully", {})})))

---------------------------------------------------------------------------
\* The executeCheck() invocations, numbered in the order of their calls.
\* `last` keeps what the invocation that returned most recently did; its
\* `gap` is the time since the previous delivery for the same condition.

IdleCycle ==
    [pc |-> "idle", kind |-> "none", by |-> 0,
     rate |-> null, cond |-> "none", sends |-> 0, out1 |-> "none",
     failedAt |-> -1, waited |-> -1, stopAt |-> "none"]

NoLast ==
    [rate |-> null, cond |-> "none", sends |-> 0, out1 |-> "none", out2 |-> "none",
     waited |-> -1, stopAt |-> "none",
     outcome |-> "none", threw |-> FALSE, records |-> 0, recordedCond |-> "none",
     delivered |-> FALSE, gap |-> -1, log |-> {}]

DoneCycle == [IdleCycle EXCEPT !.pc = "done"]

InFlight(i) == cycle[i].pc \in {"fetch", "send1", "sleep", "send2"}

FreeCycle(i) ==
    /\ cycle[i].pc = "idle"
    /\ \A j \in CycleIds : j < i => cycle[j].pc # "idle"

\* executeCheck up to its first await: the fetch is issued.
BeginCheck(i, kind, by) ==
    [cycle EXCEPT ![i] = [IdleCycle EXCEPT !.pc = "fetch", !.kind = kind, !.by = by]]

\* start() that returns after its await without registering the job.
StartResumeNoJob(s) ==
    /\ cronTask' = cronTask
    /\ task' = task
    /\ start' = [start EXCEPT ![s] = [@ EXCEPT !.pc = "done"]]

\* start() after its await of executeCheck: the recurring job is registered.
\* It runs in the turn of the event loop in which the awaited check returns.
StartResume(s) ==
    /\ cronTask' = s
    /\ task' = [task EXCEPT ![s] = "active"]
    /\ start' = [start EXCEPT ![s] = [@ EXCEPT !.pc = "done"]]

\* executeCheck returns (it never rejects), and a start() that awaited this
\* check goes on.
Return(i, c, outcome, o2, threw, recorded) ==
    /\ cycle' = [cycle EXCEPT ![i] = DoneCycle]
    /\ last' = [rate |-> c.rate, cond |-> c.cond, sends |-> c.sends,
                out1 |-> c.out1, out2 |-> o2, waited |-> c.waited, stopAt |-> c.stopAt,
                outcome |-> outcome, threw |-> threw,
                records |-> IF recorded THEN 1 ELSE 0,
                recordedCond |-> IF recorded THEN c.cond ELSE "none",
                delivered |-> (outcome = "sent" /\ "ok" \in {c.out1, o2}),
                gap |-> IF outcome = "sent" /\ "ok" \in {c.out1, o2}
                           /\ lastDelivery[c.cond] >= 0
                        THEN now - lastDelivery[c.cond] ELSE -1,
                log |-> CycleLog(c.rate, outcome, c.out1, o2)]
    /\ lastDelivery' = IF outcome = "sent" /\ "ok" \in {c.out1, o2}
                       THEN [lastDelivery EXCEPT ![c.cond] = now]
                       ELSE lastDelivery
    /\ IF c.kind = "start"
       THEN StartResume(c.by)
       ELSE UNCHANGED <<cronTask, task, start>>

\* sendAlert that returns after a resolved send without recording it.
AfterSendResolvedNoRecord(i, o, attempt) ==
    /\ cache' = cache
    /\ IF attempt = 1
       THEN Return(i, [cycle[i] EXCEPT !.out1 = o], "sent", "none", FALSE, FALSE)
       ELSE Return(i, cycle[i], "sent", o, FALSE, FALSE)

\* sendAlert after a send attempt resolved: record, log, return; executeCheck
\* then logs and returns.
AfterSendResolved(i, o, attempt) ==
    /\ cache' = record(cycle[i].cond)
    /\ IF attempt = 1
       THEN Return(i, [cycle[i] EXCEPT !.out1 = o], "sent", "none", FALSE, TRUE)
       ELSE Return(i, cycle[i], "sent", o, FALSE, TRUE)

\* executeCheck without its test for a missing rate: null is read as a rate.
FetchDoneNoNullTest(i, r) ==
    /\ cycle[i].pc = "fetch"
    /\ UNCHANGED <<now, cooldownMinutes, cache, isRunning, stops, chk>>
    /\ LET thresholdResult == check(r, thresholds)
           c == [cycle[i] EXCEPT !.rate = r, !.cond = thresholdResult.condition]
       IN  IF ~thresholdResult.shouldNotify
           THEN Return(i, c, "inrange", "none", FALSE, FALSE)
           ELSE IF ~shouldSendNotification(thresholdResult.condition)
           THEN Return(i, c, "suppressed", "none", FALSE, FALSE)
           ELSE /\ cycle' = [cycle EXCEPT ![i] = [c EXCEPT !.pc = "send1", !.sends = 1]]
                /\ UNCHANGED <<cronTask, task, start, last, lastDelivery>>

\* sendAlert with its cooldown test inverted.
FetchDoneInvertedCooldown(i, r) ==
    /\ cycle[i].pc = "fetch"
    /\ UNCHANGED <<now, cooldownMinutes, cache, isRunning, stops, chk>>
    /\ IF r = null
       THEN Return(i, cycle[i], "nodata", "none", FALSE, FALSE)
       ELSE LET thresholdResult == check(r, thresholds)
                c == [cycle[i] EXCEPT !.rate = r, !.cond = thresholdResult.condition]
            IN  IF ~thresholdResult.shouldNotify
                THEN Return(i, c, "inrange", "none", FALSE, FALSE)
                ELSE IF shouldSendNotification(thresholdResult.condition)
                THEN Return(i, c, "suppressed", "none", FALSE, FALSE)
                ELSE /\ cycle' = [cycle EXCEPT ![i] = [c EXCEPT !.pc = "send1", !.sends = 1]]
                     /\ UNCHANGED <<cronTask, task, start, last, lastDelivery>>

\* The fetch resolves with r; executeCheck runs on to its next await or to its end.
FetchDone(i, r) ==
    /\ cycle[i].pc = "fetch"
    /\ UNCHANGED <<now, cooldownMinutes, cache, isRunning, stops, chk>>
    /\ IF r = null
       THEN Return(i, cycle[i], "nodata", "none", FALSE, FALSE)
       ELSE LET thresholdResult == check(r, thresholds)
                c == [cycle[i] EXCEPT !.rate = r, !.cond = thresholdResult.condition]
            IN  IF ~thresholdResult.shouldNotify
                THEN Return(i, c, "inrange", "none", FALSE, FALSE)
                ELSE IF ~shouldSendNotification(thresholdResult.condition)
                THEN Return(i, c, "suppressed", "none", FALSE, FALSE)
                ELSE /\ cycle' = [cycle EXCEPT ![i] = [c EXCEPT !.pc = "send1", !.sends = 1]]
                     /\ UNCHANGED <<cronTask, task, start, last, lastDelivery>>

\* The first send attempt resolves or rejects.
Send1Done(i, o) ==
    /\ cycle[i].pc = "send1"
    /\ UNCHANGED <<now, cooldownMinutes, isRunning, stops, chk>>
    /\ IF o = "throw"
       THEN /\ now + RetryDelayMinutes <= MaxTime
            /\ cycle' = [cycle EXCEPT ![i] =
                    [@ EXCEPT !.pc = "sleep", !.out1 = o, !.failedAt = now]]
            /\ UNCHANGED <<cache, cronTask, task, start, last, lastDelivery>>
       ELSE AfterSendResolved(i, o, 1)

\* A retry that does not wait for its timer.
SleepDoneNoWait(i) ==
    /\ cycle[i].pc = "sleep"
    /\ cycle' = [cycle EXCEPT ![i] =
            [@ EXCEPT !.pc = "send2", !.sends = @ + 1, !.waited = now - cycle[i].failedAt]]
    /\ UNCHANGED <<now, cooldownMinutes, cache, isRunning, cronTask, task, start, stops,
                   last, lastDelivery, chk>>

\* The retry timer fires: the second attempt is issued.
SleepDone(i) ==
    /\ cycle[i].pc = "sleep"
    /\ now >= cycle[i].failedAt + RetryDelayMinutes
    /\ cycle' = [cycle EXCEPT ![i] =
            [@ EXCEPT !.pc = "send2", !.sends = @ + 1, !.waited = now - cycle[i].failedAt]]
    /\ UNCHANGED <<now, cooldownMinutes, cache, isRunning, cronTask, task, start, stops,
                   last, lastDelivery, chk>>

\* executeCheck without its catch: the failure of the retry rejects
\* executeCheck's promise, and a start() awaiting it does not go on.
Send2DoneUncaught(i, o) ==
    /\ cycle[i].pc = "send2"
    /\ UNCHANGED <<now, cooldownMinutes, isRunning, stops, chk>>
    /\ IF o = "throw"
       THEN /\ cycle' = [cycle EXCEPT ![i] = [@ EXCEPT !.pc = "rejected"]]
            /\ UNCHANGED <<cache, cronTask, task, start, last, lastDelivery>>
       ELSE AfterSendResolved(i, o, 2)

\* executeCheck whose catch cancels the recurring job.
Send2DoneCancelsJob(i, o) ==
    /\ cycle[i].pc = "send2"
    /\ UNCHANGED <<now, cooldownMinutes, isRunning, stops, chk>>
    /\ IF o = "throw"
       THEN /\ cycle' = [cycle EXCEPT ![i] = DoneCycle]
            /\ last' = [NoLast EXCEPT !.rate = cycle[i].rate, !.cond = cycle[i].cond,
                                      !.sends = cycle[i].sends, !.out1 = cycle[i].out1,
                                      !.out2 = o, !.waited = cycle[i].waited,
                                      !.stopAt = cycle[i].stopAt,
                                      !.outcome = "failed", !.threw = TRUE]
            /\ task' = [s \in StartIds |-> IF task[s] = "active" THEN "stopped" ELSE task[s]]
            /\ cronTask' = 0
            /\ start' = IF cycle[i].kind = "start"
                        THEN [start EXCEPT ![cycle[i].by] = [@ EXCEPT !.pc = "done"]]
                        ELSE start
            /\ UNCHANGED <<cache, lastDelivery>>
       ELSE AfterSendResolved(i, o, 2)

\* The second send attempt resolves or rejects.
Send2Done(i, o) ==
    /\ cycle[i].pc = "send2"
    /\ UNCHANGED <<now, cooldownMinutes, isRunning, stops, chk>>
    /\ IF o = "throw"
       THEN /\ Return(i, cycle[i], "failed", o, TRUE, FALSE)
            /\ UNCHANGED cache
       ELSE AfterSendResolved(i, o, 2)

\* Something observes the clock: a retry timer is pending or a cooldown runs.
TimeObserved ==
    \/ \E i \in CycleIds : cycle[i].pc = "sleep"
    \/ \E c \in DOMAIN cache : now - cache[c].timestamp < cooldownMinutes

\* A minute passes.  A timer that is due fires before the clock moves on, and
\* minutes that nothing observes are not counted.
Tick ==
    /\ now < MaxTime
    /\ TimeObserved
    /\ \A i \in CycleIds :
            cycle[i].pc = "sleep" => cycle[i].failedAt + RetryDelayMinutes > now
    /\ now' = now + 1
    /\ UNCHANGED <<cooldownMinutes, cache, isRunning, cronTask, task, start, stops, cycle,
                   last, lastDelivery, chk>>

---------------------------------------------------------------------------
\* Scheduler

IdleStart == [pc |-> "idle", noop |-> FALSE, checks |-> 0]

NextStart(s) ==
    /\ start[s].pc = "idle"
    /\ \A r \in StartIds : r < s => start[r].pc # "idle"

\* start() without its isRunning guard.
StartCallUnguarded(s) ==
    /\ NextStart(s)
    /\ UNCHANGED <<now, cooldownMinutes, cache, cronTask, task, stops, last, lastDelivery, chk>>
    /\ \E i \in CycleIds :
            /\ FreeCycle(i)
            /\ isRunning' = TRUE
            /\ cycle' = BeginCheck(i, "start", s)
            /\ start' = [start EXCEPT ![s] = [pc |-> "awaiting", noop |-> FALSE, checks |-> 1]]

\* start() that registers the recurring job before its immediate check.
StartCallRegistersFirst(s) ==
    /\ NextStart(s)
    /\ UNCHANGED <<now, cooldownMinutes, cache, stops, last, lastDelivery, chk>>
    /\ IF isRunning
       THEN /\ start' = [start EXCEPT ![s] = [pc |-> "done", noop |-> TRUE, checks |-> 0]]
            /\ UNCHANGED <<isRunning, cycle, cronTask, task>>
       ELSE \E i \in CycleIds :
            /\ FreeCycle(i)
            /\ isRunning' = TRUE
            /\ cronTask' = s
            /\ task' = [task EXCEPT ![s] = "active"]
            /\ cycle' = BeginCheck(i, "start", s)
            /\ start' = [start EXCEPT ![s] = [pc |-> "awaiting", noop |-> FALSE, checks |-> 1]]

\* start() up to its await of the immediate check.
StartCall(s) ==
    /\ NextStart(s)
    /\ UNCHANGED <<now, cooldownMinutes, cache, cronTask, task, stops, last, lastDelivery, chk>>
    /\ IF isRunning
       THEN /\ start' = [start EXCEPT ![s] = [pc |-> "done", noop |-> TRUE, checks |-> 0]]
            /\ UNCHANGED <<isRunning, cycle>>
       ELSE \E i \in CycleIds :
            /\ FreeCycle(i)
            /\ isRunning' = TRUE
            /\ cycle' = BeginCheck(i, "start", s)
            /\ start' = [start EXCEPT ![s] = [pc |-> "awaiting", noop |-> FALSE, checks |-> 1]]

\* stop() that also abandons the checks in progress.
StopAborting ==
    /\ stops < MaxStops
    /\ stops' = stops + 1
    /\ UNCHANGED <<now, cooldownMinutes, cache, start, last, lastDelivery, chk>>
    /\ IF ~isRunning
       THEN UNCHANGED <<isRunning, cronTask, task, cycle>>
       ELSE /\ task' = IF cronTask # 0 THEN [task EXCEPT ![cronTask] = "stopped"] ELSE task
            /\ cronTask' = 0
            /\ isRunning' = FALSE
            /\ cycle' = [i \in CycleIds |-> IF InFlight(i) THEN DoneCycle ELSE cycle[i]]

\* stop() that also empties the notification cache.
StopClearsCache ==
    /\ stops < MaxStops
    /\ stops' = stops + 1
    /\ UNCHANGED <<now, cooldownMinutes, start, last, lastDelivery, chk>>
    /\ IF ~isRunning
       THEN UNCHANGED <<isRunning, cronTask, task, cycle, cache>>
       ELSE /\ task' = IF cronTask # 0 THEN [task EXCEPT ![cronTask] = "stopped"] ELSE task
            /\ cronTask' = 0
            /\ isRunning' = FALSE
            /\ cache' = <<>>
            /\ cycle' = [i \in CycleIds |->
                    IF InFlight(i) /\ cycle[i].stopAt = "none"
                    THEN [cycle[i] EXCEPT !.stopAt = cycle[i].pc]
                    ELSE cycle[i]]

\* Scheduler.stop
Stop ==
    /\ stops < MaxStops
    /\ stops' = stops + 1
    /\ UNCHANGED <<now, cooldownMinutes, cache, start, last, lastDelivery, chk>>
    /\ IF ~isRunning
       THEN UNCHANGED <<isRunning, cronTask, task, cycle>>
       ELSE /\ task' = IF cronTask # 0 THEN [task EXCEPT ![cronTask] = "stopped"] ELSE task
            /\ cronTask' = 0
            /\ isRunning' = FALSE
            /\ cycle' = [i \in CycleIds |->
                    IF InFlight(i) /\ cycle[i].stopAt = "none"
                    THEN [cycle[i] EXCEPT !.stopAt = cycle[i].pc]
                    ELSE cycle[i]]

\* A registered job that was not stopped fires: its callback starts a check.
\* A job's firings are whole hours apart and a fetch ends within its 10 second
\* timeout, so the fetch of the job's previous firing has ended.
CronFire(t) ==
    /\ task[t] = "active"
    /\ \A j \in CycleIds :
            ~(cycle[j].pc = "fetch" /\ cycle[j].kind = "cron" /\ cycle[j].by = t)
    /\ \E i \in CycleIds :
        /\ FreeCycle(i)
        /\ cycle' = BeginCheck(i, "cron", t)
    /\ UNCHANGED <<now, cooldownMinutes, cache, isRunning, cronTask, task, start, stops,
                   last, lastDelivery, chk>>

---------------------------------------------------------------------------
\* The whole monitor: start() and stop() called at any time, the jobs firing,
\* the checks running.  The fetches and sends take the values that tell the
\* scheduler's behaviours apart.

NoCheck == [rate |-> 0, lower |-> 0, upper |-> 1, applied |-> FALSE, result |-> NoResult]

SchedFetchResults == {null, 86}
SchedSendOutcomes == {"ok", "throw"}

Init ==
    /\ now = 0
    /\ cooldownMinutes = MaxCooldown
    /\ cache = <<>>
    /\ isRunning = FALSE
    /\ cronTask = 0
    /\ task = [s \in StartIds |-> "none"]
    /\ start = [s \in StartIds |-> IdleStart]
    /\ stops = 0
    /\ cycle = [i \in CycleIds |-> IdleCycle]
    /\ last = NoLast
    /\ lastDelivery = [c \in Conditions |-> -1]
    /\ chk = NoCheck

Next ==
    \/ \E s \in StartIds : StartCall(s)
    \/ Stop
    \/ \E t \in StartIds : CronFire(t)
    \/ \E i \in CycleIds, r \in SchedFetchResults : FetchDone(i, r)
    \/ \E i \in CycleIds, o \in SchedSendOutcomes : Send1Done(i, o)
    \/ \E i \in CycleIds : SleepDone(i)
    \/ \E i \in CycleIds, o \in SchedSendOutcomes : Send2Done(i, o)
    \/ Tick

Spec == Init /\ [][Next]_vars

---------------------------------------------------------------------------
\* Dispatch: the scheduler has been started (its immediate check found no
\* data and is not numbered), its job fires at any time, and every fetch
\* result and every send outcome occurs.

DispatchInit ==
    /\ now = 0
    /\ cooldownMinutes \in {0, MaxCooldown}
    /\ cache = <<>>
    /\ isRunning = TRUE
    /\ cronTask = 1
    /\ task = [s \in StartIds |-> IF s = 1 THEN "active" ELSE "none"]
    /\ start = [s \in StartIds |->
            IF s = 1 THEN [pc |-> "done", noop |-> FALSE, checks |-> 1] ELSE IdleStart]
    /\ stops = 0
    /\ cycle = [i \in CycleIds |-> IdleCycle]
    /\ last = [NoLast EXCEPT !.outcome = "nodata"]
    /\ lastDelivery = [c \in Conditions |-> -1]
    /\ chk = NoCheck

DispatchNext ==
    \/ \E t \in StartIds : CronFire(t)
    \/ \E i \in CycleIds, r \in FetchResults : FetchDone(i, r)
    \/ \E i \in CycleIds, o \in SendOutcomes : Send1Done(i, o)
    \/ \E i \in CycleIds : SleepDone(i)
    \/ \E i \in CycleIds, o \in SendOutcomes : Send2Done(i, o)
    \/ Tick

\* Every pending fetch and send ends (each has a timeout or an answer), every
\* timer fires, and the clock does not stop.
Fairness ==
    /\ WF_vars(Tick)
    /\ \A i \in CycleIds :
        /\ WF_vars(\E r \in SchedFetchResults : FetchDone(i, r))
        /\ WF_vars(\E o \in SchedSendOutcomes : Send1Done(i, o))
        /\ WF_vars(SleepDone(i))
        /\ WF_vars(\E o \in SchedSendOutcomes : Send2Done(i, o))

FairSpec == Spec /\ Fairness

\* A registered job that is not stopped keeps firing.
RunningSpec == FairSpec /\ WF_vars(\E t \in StartIds : CronFire(t))

DispatchSpec == DispatchInit /\ [][DispatchNext]_vars

---------------------------------------------------------------------------
\* ThresholdChecker.check alone, over every rate and every pair of thresholds
\* with lower < upper.

CheckerInit ==
    /\ now = 0
    /\ cooldownMinutes = MaxCooldown
    /\ cache = <<>>
    /\ isRunning = FALSE
    /\ cronTask = 0
    /\ task = [s \in StartIds |-> "none"]
    /\ start = [s \in StartIds |-> IdleStart]
    /\ stops = 0
    /\ cycle = [i \in CycleIds |-> IdleCycle]
    /\ last = NoLast
    /\ lastDelivery = [c \in Conditions |-> -1]
    /\ chk \in {c \in CheckInputs : c.lower < c.upper}

CheckerNext ==
    \/ CheckCall
    \/ CheckNewInput

CheckerSpec == CheckerInit /\ [][CheckerNext]_vars

---------------------------------------------------------------------------
\* NotificationCache alone: a new cache, then any calls of canSend, record
\* and cleanup, with any time between them.

CacheInit ==
    /\ now = 0
    /\ cooldownMinutes = MaxCooldown
    /\ cache = <<>>
    /\ isRunning = FALSE
    /\ cronTask = 0
    /\ task = [s \in StartIds |-> "none"]
    /\ start = [s \in StartIds |-> IdleStart]
    /\ stops = 0
    /\ cycle = [i \in CycleIds |-> IdleCycle]
    /\ last = NoLast
    /\ lastDelivery = [c \in Conditions |-> -1]
    /\ chk = NoCall

CacheNext ==
    \/ \E c \in Conditions, m \in CooldownArgs : CanSendCall(c, m)
    \/ \E c \in Conditions : RecordCall(c)
    \/ \E m \in CooldownArgs : CleanupCall(m)
    \/ SizeCall
    \/ ClearCall
    \/ Elapse

CacheSpec == CacheInit /\ [][CacheNext]_vars


---------------------------------------------------------------------------
\* ConfigService, the Scheduler's constructor and schedule, and RateService,
\* each called directly.  A JavaScript number is a record: NaN, or a value.
\* Thresholds and hours are counted in tenths, minutes in units.

Num(v) == [nan |-> FALSE, v |-> v]
NotANumber == [nan |-> TRUE, v |-> 0]

\* a < b, a > b, a >= b as JavaScript evaluates them (false with NaN)
NumLess(a, b) == ~a.nan /\ ~b.nan /\ a.v < b.v
NumGreater(a, b) == ~a.nan /\ ~b.nan /\ a.v > b.v
NumGreaterEq(a, b) == ~a.nan /\ ~b.nan /\ a.v >= b.v

\* An environment variable: missing, not numeric text, or a decimal numeral
\* (in tenths).
EnvMissing == [kind |-> "missing", tenths |-> 0]
EnvText == [kind |-> "text", tenths |-> 0]
EnvNumeral(t) == [kind |-> "numeral", tenths |-> t]

\* parseFloat(process.env.X || '')
parseFloat(e) == IF e.kind = "numeral" THEN Num(e.tenths) ELSE NotANumber

\* parseInt(process.env.X || '', 10): the fraction is cut off.  The result
\* is in tenths when `scale` is 10 and in units when it is 1.
parseInt(e, scale) ==
    IF e.kind # "numeral" THEN NotANumber
    ELSE LET whole == IF e.tenths >= 0 THEN e.tenths \div 10 ELSE -((-e.tenths) \div 10)
         IN  Num(whole * scale)

DefaultCooldownMinutes == 60

RequiredNames ==
    {"EXCHANGE_API_URL", "EXCHANGE_API_KEY", "BASE_CURRENCY", "TARGET_CURRENCY",
     "RESEND_API_KEY", "FROM_EMAIL", "TO_EMAIL"}

\* validate with the threshold order test weakened to lower > upper.
validateAllowsEqual(cfg) ==
    (IF cfg.missing # {} THEN {"required"} ELSE {})
    \cup (IF cfg.format # "ok" THEN {"format"} ELSE {})
    \cup (IF cfg.thresholds.upper.nan THEN {"upper"} ELSE {})
    \cup (IF cfg.thresholds.lower.nan THEN {"lower"} ELSE {})
    \cup (IF NumGreater(cfg.thresholds.lower, cfg.thresholds.upper) THEN {"order"} ELSE {})
    \cup (IF cfg.polling.intervalHours.nan THEN {"interval"}
          ELSE IF NumLess(cfg.polling.intervalHours, Num(10))
                  \/ NumGreater(cfg.polling.intervalHours, Num(240))
          THEN {"interval"} ELSE {})
    \cup (IF cfg.notification.cooldownMinutes.nan
             \/ NumLess(cfg.notification.cooldownMinutes, Num(0))
          THEN {"cooldown"} ELSE {})

\* ConfigService.validate: the errors it collects (it throws if there are any).
validate(cfg) ==
    (IF cfg.missing # {} THEN {"required"} ELSE {})
    \cup (IF cfg.format # "ok" THEN {"format"} ELSE {})
    \cup (IF cfg.thresholds.upper.nan THEN {"upper"} ELSE {})
    \cup (IF cfg.thresholds.lower.nan THEN {"lower"} ELSE {})
    \cup (IF NumGreaterEq(cfg.thresholds.lower, cfg.thresholds.upper) THEN {"order"} ELSE {})
    \cup (IF cfg.polling.intervalHours.nan THEN {"interval"}
          ELSE IF NumLess(cfg.polling.intervalHours, Num(10))
                  \/ NumGreater(cfg.polling.intervalHours, Num(240))
          THEN {"interval"} ELSE {})
    \cup (IF cfg.notification.cooldownMinutes.nan
             \/ NumLess(cfg.notification.cooldownMinutes, Num(0))
          THEN {"cooldown"} ELSE {})

\* ConfigService.load: the configuration built from the environment, and
\* whether validate threw.
load(env) ==
    LET cfg == [missing |-> env.missing,
                format |-> env.format,
                thresholds |-> [upper |-> parseFloat(env.upper), lower |-> parseFloat(env.lower)],
                polling |-> [intervalHours |-> parseInt(env.interval, 10)],
                notification |->
                    [cooldownMinutes |->
                        IF env.cooldown.kind = "missing"
                        THEN Num(DefaultCooldownMinutes)
                        ELSE parseInt(env.cooldown, 1)]]
    IN  [threw |-> validate(cfg) # {}, config |-> cfg]

\* validatePollingInterval with the upper limit only.
validatePollingIntervalUpperOnly(intervalHours) ==
    NumGreater(intervalHours, Num(240))

\* Scheduler.validatePollingInterval, run by the constructor: does it throw?
validatePollingInterval(intervalHours) ==
    NumLess(intervalHours, Num(10)) \/ NumGreater(intervalHours, Num(240))

\* A field of a cron expression: "*", a number, or "*/n".
CronAny == [kind |-> "any", n |-> 0]
CronAt(n) == [kind |-> "at", n |-> n]
CronEvery(n) == [kind |-> "every", n |-> n]

\* buildCronExpression with the minute field left open.
buildCronExpressionOpenMinute(intervalHours) ==
    [minute |-> CronAny, hour |-> CronEvery(intervalHours.v)]

\* Scheduler.buildCronExpression.  The hour step is in tenths of an hour, as
\* intervalHours is; the minute step is in minutes.  `24 % intervalHours`
\* is a floating-point remainder: for an interval in tenths it is exactly 0
\* only when the interval is a multiple of half an hour that divides 24
\* (24 % 0.5 is 0, 24 % 0.1 and 24 % 1.2 are not).
buildCronExpression(intervalHours) ==
    LET h == intervalHours.v
        divides == ~intervalHours.nan /\ h # 0
                   /\ 240 % (IF h > 0 THEN h ELSE -h) = 0
                   /\ (IF h > 0 THEN h ELSE -h) % 5 = 0
        intervalMinutes == h * 6
    IN  IF divides
        THEN [minute |-> CronAt(0), hour |-> CronEvery(h)]
        ELSE IF ~intervalHours.nan /\ intervalMinutes < 60
        THEN [minute |-> CronEvery(intervalMinutes), hour |-> CronAny]
        ELSE [minute |-> CronAt(0), hour |-> CronEvery(h)]

\* Does the field match the value x (an hour, or a minute)?  `scale` is 10
\* for the hour field; a step that is not a positive whole number matches
\* nothing.
CronMatches(field, x, scale) ==
    CASE field.kind = "any" -> TRUE
      [] field.kind = "at" -> x = field.n
      [] OTHER -> /\ field.n > 0
                  /\ field.n % scale = 0
                  /\ x % (field.n \div scale) = 0

FiresAt(expr, hour, minute) ==
    CronMatches(expr.hour, hour, 10) /\ CronMatches(expr.minute, minute, 1)

\* The answers the HTTP GET can have.
Responses ==
    [kind : {"timeout", "http_error", "network_error"}, result : {"none"},
     conversion_rate : {0}]
    \cup [kind : {"ok"}, result : {"success", "error", "no_body"},
          conversion_rate : FetchResults \ {null}]

\* fetchCurrentRate without its catch.
fetchCurrentRateUncaught(response) ==
    IF response.kind # "ok" \/ response.result = "no_body"
    THEN [threw |-> TRUE, value |-> null]
    ELSE IF response.result # "success"
    THEN [threw |-> FALSE, value |-> null]
    ELSE [threw |-> FALSE, value |-> response.conversion_rate]

\* RateService.fetchCurrentRate: a rejected GET and a body without fields
\* end in the catch.
fetchCurrentRate(response) ==
    IF response.kind # "ok" \/ response.result = "no_body"
    THEN [threw |-> FALSE, value |-> null]
    ELSE IF response.result # "success"
    THEN [threw |-> FALSE, value |-> null]
    ELSE [threw |-> FALSE, value |-> response.conversion_rate]

\* The inputs of the direct calls; each behaviour makes one call.
NoDirectCall == [op |-> "none", input |-> 0, result |-> 0]

EnvNumbers(ts) == {EnvMissing, EnvText} \cup {EnvNumeral(t) : t \in ts}

Envs ==
    [upper : EnvNumbers({80, 85}), lower : EnvNumbers({80, 85}),
     interval : EnvNumbers({0, 5, 10, 50, 240, 249, 250}),
     cooldown : EnvNumbers({-10, 0, 10 * MaxCooldown}),
     missing : {{}} \cup {{n} : n \in RequiredNames},
     format : {"ok", "currency", "email"}]

\* The intervals a Scheduler is built with: whole hours, NaN, and parts of an
\* hour (0.3, 0.5, 0.7 hours).
Intervals == {NotANumber} \cup {Num(10 * n) : n \in -1..26} \cup {Num(3), Num(5), Num(7)}

LoadCall(env) ==
    /\ chk.op = "none"
    /\ chk' = [op |-> "load", input |-> env, result |-> load(env)]
    /\ UNCHANGED monitor

ConstructorCall(intervalHours) ==
    /\ chk.op = "none"
    /\ chk' = [op |-> "new Scheduler", input |-> intervalHours,
               result |-> [threw |-> validatePollingInterval(intervalHours)]]
    /\ UNCHANGED monitor

CronCall(intervalHours) ==
    /\ chk.op = "none"
    /\ ~validatePollingInterval(intervalHours)
    /\ chk' = [op |-> "buildCronExpression", input |-> intervalHours,
               result |-> buildCronExpression(intervalHours)]
    /\ UNCHANGED monitor

FetchCall(response) ==
    /\ chk.op = "none"
    /\ chk' = [op |-> "fetchCurrentRate", input |-> response,
               result |-> fetchCurrentRate(response)]
    /\ UNCHANGED monitor

ConfigInit ==
    /\ now = 0
    /\ cooldownMinutes = MaxCooldown
    /\ cache = <<>>
    /\ isRunning = FALSE
    /\ cronTask = 0
    /\ task = [s \in StartIds |-> "none"]
    /\ start = [s \in StartIds |-> IdleStart]
    /\ stops = 0
    /\ cycle = [i \in CycleIds |-> IdleCycle]
    /\ last = NoLast
    /\ lastDelivery = [c \in Conditions |-> -1]
    /\ chk = NoDirectCall

ConfigNext ==
    \/ \E env \in Envs : LoadCall(env)
    \/ \E h \in Intervals : ConstructorCall(h)
    \/ \E h \in Intervals : CronCall(h)
    \/ \E response \in Responses : FetchCall(response)

ConfigSpec == ConfigInit /\ [][ConfigNext]_vars

---------------------------------------------------------------------------
\* Application.start: the configuration is loaded from the environment, the
\* services and the Scheduler are built, the scheduler is started; any error
\* ends the process with code 1.

AppEnvs ==
    [upper : {EnvText, EnvNumeral(80), EnvNumeral(85)},
     lower : {EnvNumeral(80), EnvNumeral(85)},
     interval : {EnvMissing, EnvNumeral(0), EnvNumeral(10), EnvNumeral(250)},
     cooldown : {EnvNumeral(-10), EnvNumeral(0), EnvNumeral(10 * MaxCooldown)},
     missing : {{}, {"RESEND_API_KEY"}},
     format : {"ok"}]

\* Does the environment make load() or the Scheduler's constructor throw?
StartupFails(env) ==
    \/ load(env).threw
    \/ validatePollingInterval(load(env).config.polling.intervalHours)

Exited(code) == [exited |-> TRUE, code |-> code]
NotExited == [exited |-> FALSE, code |-> 0]

\* scheduler.start() up to its await of the immediate check, with the loaded
\* configuration.
AppSchedulerStart(cfg) ==
    /\ isRunning' = TRUE
    /\ cooldownMinutes' = cfg.notification.cooldownMinutes.v
    /\ cycle' = BeginCheck(1, "start", 1)
    /\ start' = [start EXCEPT ![1] = [pc |-> "awaiting", noop |-> FALSE, checks |-> 1]]
    /\ UNCHANGED <<now, cache, cronTask, task, stops, last, lastDelivery>>

\* Application.start whose catch logs the error and goes on.
AppStartNoExit(env) ==
    /\ chk.op = "none"
    /\ chk' = [op |-> "Application.start", input |-> env, result |-> NotExited]
    /\ AppSchedulerStart(load(env).config)

\* Application.start up to the first await it reaches, or to its exit.
AppStart(env) ==
    /\ chk.op = "none"
    /\ IF StartupFails(env)
       THEN /\ chk' = [op |-> "Application.start", input |-> env, result |-> Exited(1)]
            /\ UNCHANGED monitor
       ELSE /\ chk' = [op |-> "Application.start", input |-> env, result |-> NotExited]
            /\ AppSchedulerStart(load(env).config)

AppInit == ConfigInit

AppNext ==
    \/ \E env \in AppEnvs : AppStart(env)
    \/ \E t \in StartIds : CronFire(t)
    \/ \E i \in CycleIds, r \in SchedFetchResults : FetchDone(i, r)
    \/ \E i \in CycleIds, o \in SchedSendOutcomes : Send1Done(i, o)
    \/ \E i \in CycleIds : SleepDone(i)
    \/ \E i \in CycleIds, o \in SchedSendOutcomes : Send2Done(i, o)
    \/ Tick

AppSpec == AppInit /\ [][AppNext]_vars

---------------------------------------------------------------------------
\* Polling: the started scheduler's job fires again and again, each firing
\* after the check of the one before has returned.  `failures` counts the
\* checks in a row, up to the one before the check in progress, whose fetch
\* gave no rate.

MaxPolls == 5

FailureWarningThreshold == 3

NoPolls == [op |-> "poll", fired |-> 0, failures |-> 0]

PollFire ==
    /\ task[1] = "active"
    /\ chk.fired < MaxPolls
    /\ \A i \in CycleIds : ~InFlight(i)
    /\ cycle' = [[i \in CycleIds |-> IdleCycle] EXCEPT
                    ![1] = [IdleCycle EXCEPT !.pc = "fetch", !.kind = "cron", !.by = 1]]
    /\ chk' = [chk EXCEPT !.fired = @ + 1,
                          !.failures = IF last.outcome = "nodata" THEN @ + 1 ELSE 0]
    /\ UNCHANGED <<now, cooldownMinutes, cache, isRunning, cronTask, task, start, stops,
                   last, lastDelivery>>

PollInit ==
    /\ now = 0
    /\ cooldownMinutes \in {0, MaxCooldown}
    /\ cache = <<>>
    /\ isRunning = TRUE
    /\ cronTask = 1
    /\ task = [s \in StartIds |-> IF s = 1 THEN "active" ELSE "none"]
    /\ start = [s \in StartIds |->
            IF s = 1 THEN [pc |-> "done", noop |-> FALSE, checks |-> 1] ELSE IdleStart]
    /\ stops = 0
    /\ cycle = [i \in CycleIds |-> IdleCycle]
    /\ last = NoLast
    /\ lastDelivery = [c \in Conditions |-> -1]
    /\ chk = NoPolls

PollNext ==
    \/ PollFire
    \/ \E i \in CycleIds, r \in SchedFetchResults : FetchDone(i, r)
    \/ \E i \in CycleIds, o \in SchedSendOutcomes : Send1Done(i, o)
    \/ \E i \in CycleIds : SleepDone(i)
    \/ \E i \in CycleIds, o \in SchedSendOutcomes : Send2Done(i, o)
    \/ Tick

PollSpec == PollInit /\ [][PollNext]_vars

---------------------------------------------------------------------------
\* Properties.

\* A step in which invocation i returns.
Returns(i) == InFlight(i) /\ cycle'[i].pc = "done"

\* A step in which invocation i calls sendAlert for condition c.
Dispatches(i, c) ==
    /\ cycle[i].pc = "fetch"
    /\ \/ cycle'[i].pc = "send1" /\ cycle'[i].cond = c
       \/ cycle'[i].pc = "done" /\ last'.cond = c

\* C1: two emails for the same condition are never delivered less than
\* cooldownMinutes apart, whatever the interleaving of check cycles.
C1_DeliveriesCooldownApart ==
    (last.delivered /\ last.gap >= 0) => last.gap >= cooldownMinutes

\* C2: for lower < upper, check notifies above_upper exactly when
\* rate > upper, below_lower exactly when rate < lower, and gives no
\* notification, condition or message exactly when lower <= rate <= upper.
C2_CheckDecision ==
    chk.applied =>
        LET r == chk.result
        IN  /\ (r.shouldNotify /\ r.condition = "above_upper") <=> (chk.rate > chk.upper)
            /\ (r.shouldNotify /\ r.condition = "below_lower") <=> (chk.rate < chk.lower)
            /\ (~r.shouldNotify) <=> (chk.lower <= chk.rate /\ chk.rate <= chk.upper)
            /\ (~r.shouldNotify) => (r.condition = "none" /\ ~r.message.present)
            /\ r.shouldNotify => r.message.present

C2_Witness ==
    /\ chk.applied
    /\ chk.rate = chk.upper
    /\ ~chk.result.shouldNotify

\* C3: sendAlert called while canSend is false makes no send attempt, leaves
\* the cache unchanged and returns normally.
C3_SuppressedIsNoOp ==
    [][\A i \in CycleIds, c \in Conditions :
        (Dispatches(i, c) /\ ~canSend(c, cooldownMinutes)) =>
            /\ cycle'[i].pc = "done"
            /\ last'.outcome = "suppressed"
            /\ last'.sends = 0
            /\ ~last'.threw
            /\ cache' = cache]_vars

C3_Witness ==
    /\ last.outcome = "suppressed"
    /\ last.sends = 0
    /\ last.cond \in DOMAIN cache
    /\ now - cache[last.cond].timestamp < cooldownMinutes

\* C4: one sendAlert makes at most two send attempts; the second only after
\* the first failed and after a wait of exactly 5 minutes; a successful first
\* attempt has no second, a failed second has no third.
AttemptsOk(c) ==
    /\ c.sends <= 2
    /\ c.sends = 2 => (c.out1 = "throw" /\ c.waited = RetryDelayMinutes)
    /\ c.out1 \in {"ok", "error"} => c.sends = 1

C4_AtMostOneRetry ==
    /\ \A i \in CycleIds : AttemptsOk(cycle[i])
    /\ AttemptsOk(last)
    /\ last.out2 # "none" => last.sends = 2
    /\ last.out1 \in {"ok", "error"} => last.out2 = "none"

C4_Witness ==
    /\ last.sends = 2
    /\ last.out1 = "throw"
    /\ last.out2 = "throw"
    /\ last.waited = RetryDelayMinutes

\* C5: when a delivery succeeds, sendAlert records the dispatched condition
\* exactly once, after the delivery, and returns normally.  The cache changes
\* in no other step.
C5_RecordOnSuccess ==
    [][/\ \A i \in CycleIds :
            (Returns(i) /\ last'.delivered) =>
                /\ last'.records = 1
                /\ last'.recordedCond = cycle[i].cond
                /\ ~last'.threw
                /\ cycle[i].cond \in DOMAIN cache'
                /\ cache'[cycle[i].cond] =
                        [condition |-> cycle[i].cond, timestamp |-> now]
                /\ \A k \in Conditions \ {cycle[i].cond} :
                        /\ k \in DOMAIN cache' <=> k \in DOMAIN cache
                        /\ k \in DOMAIN cache => cache'[k] = cache[k]
       /\ cache' # cache =>
            \E i \in CycleIds :
                /\ cycle[i].pc \in {"send1", "send2"}
                /\ Returns(i)
                /\ last'.outcome = "sent"]_vars

C5_Witness ==
    /\ last.delivered
    /\ last.sends = 2
    /\ last.out2 = "ok"
    /\ last.records = 1
    /\ last.recordedCond = last.cond

\* C6: when the first attempt and the retry both fail, sendAlert rejects
\* and the cache is left unchanged.
C6_FailureRejectsNoRecord ==
    (last.sends = 2 /\ last.out1 \in {"throw", "error"} /\ last.out2 \in {"throw", "error"})
        => (last.threw /\ last.records = 0)

\* A step in which a job's callback starts invocation i.
Fires(i) == cycle[i].pc = "idle" /\ cycle'[i].pc = "fetch" /\ cycle'[i].kind = "cron"

\* A step that is a call of start(), of stop().
StartCalled(s) == start[s].pc = "idle" /\ start'[s].pc # "idle"
StopCalled == stops' # stops

\* The invocations in progress that start() call s made.
StartupChecks(s) ==
    {i \in CycleIds : InFlight(i) /\ cycle[i].kind = "start" /\ cycle[i].by = s}

\* C7: once stop() has returned, the schedule starts no check cycle until a
\* later start().
C7_NoFiringWhileStopped ==
    [][\A i \in CycleIds : Fires(i) => isRunning]_vars

\* C8: start() while Running runs no check, registers no job and leaves the
\* state Running; stop() while Stopped changes nothing.
C8_IdempotentStartStop ==
    [][/\ \A s \in StartIds :
            (StartCalled(s) /\ isRunning) =>
                /\ isRunning'
                /\ start'[s].checks = 0
                /\ UNCHANGED <<cycle, task, cronTask, cache, last, now>>
       /\ (StopCalled /\ ~isRunning) =>
                /\ ~isRunning'
                /\ UNCHANGED <<cycle, task, cronTask, cache, last, now, start>>]_vars

C8_Witness ==
    \E s, r \in StartIds :
        /\ start[r].pc = "awaiting"
        /\ start[s].pc = "done"
        /\ start[s].noop
        /\ task[s] = "none"

\* C9: every start() that goes ahead runs exactly one immediate check, and
\* its job is registered, and so fires, only after that check has returned.
C9_StartupCheckFirst ==
    \A s \in StartIds :
        /\ start[s].pc = "awaiting" =>
                (Cardinality(StartupChecks(s)) = 1 /\ start[s].checks = 1 /\ task[s] = "none")
        /\ (start[s].pc = "done" /\ ~start[s].noop) =>
                (StartupChecks(s) = {} /\ start[s].checks = 1)
        /\ task[s] # "none" => (start[s].pc = "done" /\ ~start[s].noop)
        /\ \A i \in CycleIds :
                (cycle[i].kind = "cron" /\ cycle[i].by = s) =>
                    (task[s] # "none" /\ StartupChecks(s) = {})

C9_Witness ==
    \E s \in StartIds, i \in CycleIds :
        /\ start[s].pc = "done"
        /\ start[s].checks = 1
        /\ task[s] = "active"
        /\ InFlight(i)
        /\ cycle[i].kind = "cron"
        /\ cycle[i].by = s

\* C10: stop() does not abort a check cycle in progress: stop() leaves the
\* cycle where it is, and the cycle still runs to its end, its retry and
\* its cache record included.
C10_StopLeavesCheckRunning ==
    /\ [][StopCalled =>
            \A i \in CycleIds :
                /\ cycle'[i].pc = cycle[i].pc
                /\ cycle'[i].sends = cycle[i].sends
                /\ cycle'[i].failedAt = cycle[i].failedAt]_vars
    /\ \A i \in CycleIds :
        /\ (InFlight(i) /\ cycle[i].stopAt # "none") ~> (cycle[i].pc = "done")
        /\ (cycle[i].pc = "sleep" /\ cycle[i].stopAt # "none") ~> (cycle[i].pc = "send2")
    /\ [](last.stopAt # "none" /\ last.outcome = "sent" => last.records = 1)

C10_Witness ==
    /\ ~isRunning
    /\ last.stopAt = "sleep"
    /\ last.sends = 2
    /\ last.outcome = "sent"
    /\ last.records = 1
    /\ last.cond \in DOMAIN cache

\* A step in which invocation i reaches its end.
Ends(i) == InFlight(i) /\ ~(cycle'[i].pc \in {"fetch", "send1", "sleep", "send2"})

Outcomes == {"nodata", "inrange", "suppressed", "sent", "failed"}

\* C11: every invocation of executeCheck ends by returning, whatever its
\* outcome (a rejected sendAlert included), so an awaiting start() goes on,
\* and the returning check itself changes neither Running/Stopped nor the
\* registered job.
C11_CheckNeverThrows ==
    [][\A i \in CycleIds :
        Ends(i) =>
            /\ cycle'[i].pc = "done"
            /\ last'.outcome \in Outcomes
            /\ last'.threw <=> last'.outcome = "failed"
            /\ isRunning' = isRunning
            /\ IF cycle[i].kind = "cron"
               THEN UNCHANGED <<cronTask, task, start>>
               ELSE /\ start[cycle[i].by].pc = "awaiting"
                    /\ start'[cycle[i].by].pc = "done"
                    /\ \A s \in StartIds : s # cycle[i].by =>
                            (task'[s] = task[s] /\ start'[s] = start[s])]_vars

C11_Witness ==
    /\ last.outcome = "failed"
    /\ last.threw
    /\ isRunning
    /\ cronTask # 0
    /\ task[cronTask] = "active"

\* The number of check cycles started so far.
Started == Cardinality({i \in CycleIds : cycle[i].pc # "idle"})

\* C12: while the scheduler is Running its registered job stays active, and
\* after a cycle that fetched no data or failed to deliver, another cycle
\* is started (unless the scheduler is stopped first).
C12_FailureDoesNotBlock ==
    /\ []((isRunning /\ cronTask # 0) => task[cronTask] = "active")
    /\ \A k \in 1..(MaxCycles - 1) :
        (last.outcome \in {"nodata", "failed"} /\ Started = k /\ isRunning)
            ~> (Started > k \/ ~isRunning)

C12_Witness ==
    /\ last.outcome = "failed"
    /\ isRunning
    /\ \E i \in CycleIds : InFlight(i) /\ cycle[i].kind = "cron" /\ cycle[i].pc = "fetch"

\* What a cycle that fetched no data has done: nothing.
NoDataOk(c) ==
    c.rate = null => (c.cond = "none" /\ c.sends = 0 /\ c.out1 = "none")

\* C13: a cycle whose fetch yields null evaluates nothing, dispatches
\* nothing, attempts no email, leaves the cache unchanged and returns
\* normally.
C13_NoDataSkipsCycle ==
    /\ [](\A i \in CycleIds :
            /\ NoDataOk(cycle[i])
            /\ cycle[i].rate = null => cycle[i].pc \in {"idle", "fetch", "done"})
    /\ [](last.outcome = "nodata" <=> (last.rate = null /\ last.outcome # "none"))
    /\ [](last.rate = null =>
            (NoDataOk(last) /\ last.out2 = "none" /\ last.records = 0 /\ ~last.threw
             /\ ~last.delivered))
    /\ [][\A i \in CycleIds :
            (Ends(i) /\ last'.rate = null) =>
                (cycle[i].pc = "fetch" /\ cycle'[i].pc = "done" /\ cache' = cache
                 /\ lastDelivery' = lastDelivery)]_vars

C13_Witness ==
    /\ last.outcome = "nodata"
    /\ last.rate = null
    /\ last.sends = 0
    /\ DOMAIN cache # {}

\* The rate is a number (neither missing nor NaN).
IsNumber(r) == r # null /\ r # NaN

\* What the rate of a cycle allows it to have done.
RateOk(c) ==
    /\ (IsNumber(c.rate) /\ thresholds.lower <= c.rate /\ c.rate <= thresholds.upper) =>
            (c.sends = 0 /\ c.cond = "none")
    /\ (c.sends > 0 /\ c.cond = "above_upper") => (IsNumber(c.rate) /\ c.rate > thresholds.upper)
    /\ (c.sends > 0 /\ c.cond = "below_lower") => (IsNumber(c.rate) /\ c.rate < thresholds.lower)
    /\ c.sends > 0 => c.cond \in Conditions

\* C14: a cycle whose rate is within the thresholds attempts no email and
\* leaves the cache unchanged, and every email for above_upper (below_lower)
\* comes from a cycle whose rate was above the upper (below the lower)
\* threshold.
C14_InRangeNoDispatch ==
    /\ [](\A i \in CycleIds : RateOk(cycle[i]))
    /\ [](RateOk(last) /\ (last.outcome = "inrange" => (last.sends = 0 /\ last.records = 0)))
    /\ [][\A i \in CycleIds :
            (Ends(i) /\ last'.outcome = "inrange") =>
                (cycle[i].pc = "fetch" /\ cache' = cache /\ lastDelivery' = lastDelivery)]_vars

C14_Witness ==
    /\ last.outcome = "inrange"
    /\ last.rate = thresholds.upper
    /\ last.sends = 0
    /\ DOMAIN cache # {}

\* The number of delivered emails among the attempts of the last cycle.
Deliveries(l) == (IF l.out1 = "ok" THEN 1 ELSE 0) + (IF l.out2 = "ok" THEN 1 ELSE 0)

\* C15: a cycle that fetched a breach whose condition is not in cooldown is
\* dispatched, and if its first attempt or its retry succeeds it delivers
\* exactly one email and ends with a cache record for the condition.
C15_BreachDelivered ==
    [][\A i \in CycleIds :
        /\ \A c \in Conditions :
            (Dispatches(i, c) /\ canSend(c, cooldownMinutes)) =>
                (cycle'[i].pc = "send1" /\ cycle'[i].sends = 1)
        /\ (InFlight(i) /\ cycle[i].pc # "fetch" /\ Ends(i) /\ "ok" \in {last'.out1, last'.out2}) =>
                /\ cycle'[i].pc = "done"
                /\ last'.outcome = "sent"
                /\ last'.delivered
                /\ Deliveries(last') = 1
                /\ last'.cond = cycle[i].cond
                /\ last'.cond = check(last'.rate, thresholds).condition
                /\ last'.cond \in DOMAIN cache'
                /\ cache'[last'.cond].timestamp = now']_vars

C15_Witness ==
    /\ last.rate = 86
    /\ last.cond = "above_upper"
    /\ last.out1 = "throw"
    /\ last.out2 = "ok"
    /\ last.delivered
    /\ "above_upper" \in DOMAIN cache
    /\ cache["above_upper"].timestamp = now

\* The steps of the calls on the cache.
CanSendStep(c, m) ==
    now' = now /\ chk'.op = "canSend" /\ chk'.condition = c /\ chk'.cooldown = m
RecordStep(c) == now' = now /\ chk'.op = "record" /\ chk'.condition = c
CleanupStep(m) == now' = now /\ chk'.op = "cleanup" /\ chk'.cooldown = m

\* C16: canSend(c, m) is true exactly when the cache has no record for c or
\* the record's age is at least m minutes (age m included); it changes
\* nothing, and it is true for every condition on a new cache.
C16_CanSend ==
    [][\A c \in Conditions, m \in CooldownArgs :
        CanSendStep(c, m) =>
            /\ chk'.result <=> (c \notin DOMAIN cache \/ now - cache[c].timestamp >= m)
            /\ DOMAIN cache = {} => chk'.result
            /\ cache' = cache]_vars

C16_Witness ==
    /\ chk.op = "canSend"
    /\ chk.result
    /\ chk.cooldown > 0
    /\ chk.condition \in DOMAIN cache
    /\ chk.at - cache[chk.condition].timestamp = chk.cooldown

\* C17: after record(c), and until another call is made, canSend(c, m) for
\* m > 0 is false while fewer than m minutes have passed since the call and
\* true from then on.
C17_CooldownAfterRecord ==
    chk.op = "record" =>
        \A m \in 1..MaxCooldown :
            canSend(chk.condition, m) <=> (now - chk.at >= m)

C17_Witness ==
    /\ chk.op = "record"
    /\ chk.condition \in DOMAIN chk.before
    /\ chk.before[chk.condition].timestamp < chk.at
    /\ now - chk.at = MaxCooldown
    /\ canSend(chk.condition, MaxCooldown)

\* C18: record(A) sets the record of A to the current time and leaves the
\* record, and so the canSend result, of every other condition as it was.
C18_RecordIndependent ==
    [][\A a \in Conditions :
        RecordStep(a) =>
            /\ a \in DOMAIN cache'
            /\ cache'[a] = [condition |-> a, timestamp |-> now]
            /\ \A b \in Conditions \ {a} :
                /\ b \in DOMAIN cache' <=> b \in DOMAIN cache
                /\ b \in DOMAIN cache => cache'[b] = cache[b]
                /\ \A m \in CooldownArgs : canSend(b, m)' <=> canSend(b, m)]_vars

C18_Witness ==
    /\ chk.op = "record"
    /\ now = chk.at
    /\ \E b \in Conditions \ {chk.condition} :
        /\ b \in DOMAIN chk.before
        /\ b \in DOMAIN cache
        /\ cache[b].timestamp < now
        /\ ~canSend(b, MaxCooldown)
        /\ ~canSend(chk.condition, MaxCooldown)

\* C19: cleanup(m) deletes exactly the records whose age is m minutes or
\* more; the younger ones stay as they are.
C19_CleanupRemovesExpired ==
    [][\A m \in CooldownArgs :
        CleanupStep(m) =>
            /\ DOMAIN cache' = {c \in DOMAIN cache : now - cache[c].timestamp < m}
            /\ \A c \in DOMAIN cache' : cache'[c] = cache[c]]_vars

C19_Witness ==
    /\ chk.op = "cleanup"
    /\ now = chk.at
    /\ \E a, b \in DOMAIN chk.before :
        /\ now - chk.before[a].timestamp = chk.cooldown
        /\ a \notin DOMAIN cache
        /\ now - chk.before[b].timestamp < chk.cooldown
        /\ b \in DOMAIN cache

\* C20 as stated: cleanup(m) changes the result of no canSend(c, m2),
\* whatever the two (positive) cooldown arguments.
C20_CleanupNeverChangesCanSend ==
    [][\A m \in 1..MaxCooldown :
        CleanupStep(m) =>
            \A c \in Conditions, m2 \in 1..MaxCooldown : canSend(c, m2)' <=> canSend(c, m2)]_vars

\* C20 amended: cleanup(m) changes the result of no canSend(c, m2) whose
\* cooldown m2 is at most m.
C20_CleanupKeepsCanSendUpToM ==
    [][\A m \in CooldownArgs :
        CleanupStep(m) =>
            \A c \in Conditions, m2 \in 0..m : canSend(c, m2)' <=> canSend(c, m2)]_vars

C20_Witness ==
    /\ chk.op = "cleanup"
    /\ now = chk.at
    /\ chk.cooldown > 0
    /\ \E a, b \in DOMAIN chk.before :
        /\ a \notin DOMAIN cache
        /\ canSend(a, chk.cooldown)
        /\ b \in DOMAIN cache
        /\ ~canSend(b, chk.cooldown)

\* C21: the cache holds at most one record per condition, in the monitor at
\* most the two of above_upper and below_lower, and each record's condition
\* is the key it is stored under.
C21_OneRecordPerCondition ==
    /\ DOMAIN cache \subseteq Conditions
    /\ Cardinality(DOMAIN cache) <= 2
    /\ \A k \in DOMAIN cache : cache[k].condition = k
    /\ \A c \in Conditions : Cardinality({k \in DOMAIN cache : cache[k].condition = c}) <= 1

C21_Witness ==
    /\ DOMAIN cache = Conditions
    /\ last.records = 1
    /\ last.sends = 2

\* The entries of a log with the message msg.
Logged(log, msg) == {e \in log : e.msg = msg}

\* C24: the log of a cycle tells what happened: "Email notification sent"
\* only if an email was delivered, a suppressed dispatch as suppressed, a
\* failed delivery as an error.  (Stated for cycles whose send attempts
\* either delivered or threw.)
C24_LoggedOutcomeOccurred ==
    ("error" \notin {last.out1, last.out2}) =>
        /\ Logged(last.log, "Email notification sent") # {} => last.delivered
        /\ last.outcome = "suppressed" =>
                Logged(last.log, "Notification is in cooldown period, skipping") # {}
        /\ last.outcome = "failed" =>
                \E e \in Logged(last.log, "Error during rate check cycle") : e.level = "error"

\* The configuration values that must stay secret.
Secrets == {config.exchangeRate.apiKey, config.notification.resendApiKey}

\* C28: no log entry contains the exchange-rate API key or the Resend API key.
C28_NoSecretInLog ==
    \A e \in last.log : e.values \cap Secrets = {}

\* C30: at most one check cycle is in progress at any time.
C30_OneCycleAtATime ==
    Cardinality({i \in CycleIds : InFlight(i)}) <= 1

\* Is the interval (in tenths of an hour) within 1..24 hours?
ValidInterval(h) == ~h.nan /\ 10 <= h.v /\ h.v <= 240

\* C22: constructing a Scheduler throws for every polling interval that is
\* not within 1..24 hours and succeeds for every interval within it.
C22_ConstructorValidates ==
    chk.op = "new Scheduler" => (chk.result.threw <=> ~ValidInterval(chk.input))

\* C23: for a whole interval of N hours in 1..24 the schedule is
\* `0 */N * * *`: it fires at minute 0 of the hours 0, N, 2N, ... below 24,
\* and when N divides 24 each firing is N hours after the one before.
C23_CronSchedule ==
    (chk.op = "buildCronExpression" /\ ValidInterval(chk.input)) =>
        LET N == chk.input.v \div 10
            expr == chk.result
        IN  /\ expr = [minute |-> CronAt(0), hour |-> CronEvery(10 * N)]
            /\ \A hh \in 0..23, mm \in 0..59 :
                    FiresAt(expr, hh, mm) <=> (mm = 0 /\ hh % N = 0)
            /\ 24 % N = 0 =>
                    \A hh \in 0..23 :
                        FiresAt(expr, hh, 0) =>
                            /\ FiresAt(expr, (hh + N) % 24, 0)
                            /\ \A d \in 1..(N - 1) : ~FiresAt(expr, (hh + d) % 24, 0)

C23_Witness ==
    /\ chk.op = "buildCronExpression"
    /\ chk.input = Num(50)
    /\ FiresAt(chk.result, 20, 0)
    /\ FiresAt(chk.result, 0, 0)
    /\ \A hh \in 21..23 : ~FiresAt(chk.result, hh, 0)
    /\ ~FiresAt(chk.result, 20, 1)

\* C25: fetchCurrentRate never throws; it returns null for a timeout, an
\* HTTP error, a network error and a result other than 'success', and a
\* reading only for a successful response.
C25_FetchNeverThrows ==
    chk.op = "fetchCurrentRate" =>
        /\ ~chk.result.threw
        /\ (chk.input.kind # "ok" \/ chk.input.result # "success") => chk.result.value = null
        /\ chk.result.value # null =>
                (chk.input.kind = "ok" /\ chk.input.result = "success"
                 /\ chk.result.value = chk.input.conversion_rate)

C25_Witness ==
    /\ chk.op = "fetchCurrentRate"
    /\ chk.input.kind = "timeout"
    /\ ~chk.result.threw
    /\ chk.result.value = null

\* What every loaded configuration must satisfy.
ConfigOk(cfg) ==
    /\ NumLess(cfg.thresholds.lower, cfg.thresholds.upper)
    /\ ValidInterval(cfg.polling.intervalHours)
    /\ NumGreaterEq(cfg.notification.cooldownMinutes, Num(0))

\* C26: a configuration that load() returns has lower < upper, an interval
\* within 1..24 hours and a cooldown >= 0; load() throws when one of these
\* fails or a required value is missing.
C26_LoadValidates ==
    chk.op = "load" =>
        /\ ~chk.result.threw => ConfigOk(chk.result.config)
        /\ (~ConfigOk(chk.result.config) \/ chk.input.missing # {}) => chk.result.threw

C26_Witness ==
    /\ chk.op = "load"
    /\ ~chk.result.threw
    /\ chk.input.interval = EnvNumeral(249)
    /\ chk.result.config.polling.intervalHours = Num(240)
    /\ chk.input.cooldown = EnvMissing
    /\ chk.result.config.notification.cooldownMinutes = Num(DefaultCooldownMinutes)

\* C27: if loading the configuration or constructing the Scheduler fails at
\* startup, the application runs no check cycle, fetches no rate, sends no
\* email, and the process exits with a non-zero code.
C27_FailedStartupRunsNothing ==
    (chk.op = "Application.start" /\ StartupFails(chk.input)) =>
        /\ chk.result.exited /\ chk.result.code # 0
        /\ \A i \in CycleIds : cycle[i].pc = "idle"
        /\ ~isRunning /\ cronTask = 0
        /\ \A s \in StartIds : task[s] = "none" /\ start[s].pc = "idle"
        /\ last = NoLast
        /\ cache = <<>>
        /\ \A c \in Conditions : lastDelivery[c] = -1

\* A startup that failed in load() (thresholds out of order) has exited, and
\* another that failed on the polling interval has too.
C27_Witness ==
    /\ chk.op = "Application.start"
    /\ chk.result.exited
    /\ chk.result.code = 1
    /\ load(chk.input).threw
    /\ chk.input.missing = {}
    /\ chk.input.lower.tenths >= chk.input.upper.tenths
    /\ chk.input.upper.kind = "numeral"
    /\ chk.input.interval = EnvNumeral(10)

\* C29: when the fetch has failed in more than 3 checks in a row, a warning
\* has been written by the last of them.
C29_WarningAfterFailures ==
    (chk.op = "poll" /\ chk.failures > FailureWarningThreshold
     /\ \A i \in CycleIds : cycle[i].pc # "done") =>
        \E e \in last.log : e.level = "warning"

\* The recurring jobs that are registered and not cancelled.
RegisteredJobs == {s \in StartIds : task[s] = "active"}

\* C31: over any interleaving of start() and stop(), at most one recurring
\* job is registered at a time, no job is registered while isActive() is
\* false and no start() is in progress, and every registered job is the one
\* cronTask refers to.
C31_OneJobUnderInterleaving ==
    /\ Cardinality(RegisteredJobs) <= 1
    /\ (~isRunning /\ \A s \in StartIds : start[s].pc # "awaiting") => RegisteredJobs = {}
    /\ \A s \in RegisteredJobs : cronTask = s

\* C32: a record is written only after a send attempt that succeeded; an
\* attempt the sender reports as failed, by throwing or by a failure result,
\* leads to the retry and then to the delivery-failure signal, never to a
\* record.
C32_FailureResultIsFailure ==
    /\ last.records = 1 => "ok" \in {last.out1, last.out2}
    /\ last.out1 \in {"throw", "error"} => last.sends = 2
    /\ (last.sends = 2 /\ last.out2 \in {"throw", "error"}) => last.outcome = "failed"

\* C33: every rate that reaches the threshold checker is a positive number;
\* a missing or non-numeric conversion_rate makes the cycle a skipped one.
C33_CheckedRateIsPositiveNumber ==
    /\ \A i \in CycleIds :
            cycle[i].pc \in {"send1", "sleep", "send2"} =>
                (IsNumber(cycle[i].rate) /\ cycle[i].rate > 0)
    /\ last.outcome \in {"inrange", "suppressed", "sent", "failed"} =>
            (IsNumber(last.rate) /\ last.rate > 0)

\* C34: the record written by a successful sendAlert carries the time at
\* which the delivery succeeded (after the 5 minute wait when the retry was
\* needed), so the next notification for the condition is permitted no
\* earlier than cooldownMinutes after the delivery completed.
C34_RecordCarriesDeliveryTime ==
    /\ [](\A c \in Conditions :
            lastDelivery[c] >= 0 =>
                /\ c \in DOMAIN cache
                /\ cache[c].timestamp >= lastDelivery[c]
                /\ canSend(c, cooldownMinutes) => now - lastDelivery[c] >= cooldownMinutes)
    /\ [][\A i \in CycleIds :
            (Returns(i) /\ last'.records = 1) =>
                /\ cache'[cycle[i].cond].timestamp = now
                /\ cycle[i].pc = "send2" =>
                        cache'[cycle[i].cond].timestamp >= cycle[i].failedAt + RetryDelayMinutes]_vars

\* A delivery that needed the retry has been recorded at the time it
\* succeeded, and the cooldown runs from then.
C34_Witness ==
    /\ last.delivered
    /\ last.sends = 2
    /\ last.out2 = "ok"
    /\ now >= RetryDelayMinutes
    /\ cache[last.cond].timestamp = now
    /\ cooldownMinutes > 0
    /\ ~canSend(last.cond, cooldownMinutes)

\* C35: canSend has no side effects: the records and their timestamps are
\* the same before and after the call, whatever it returns.
C35_CanSendChangesNothing ==
    [][chk'.op = "canSend" /\ (chk' # chk \/ cache' # cache) /\ now' = now =>
        /\ DOMAIN cache' = DOMAIN cache
        /\ \A k \in DOMAIN cache :
                /\ cache'[k].timestamp = cache[k].timestamp
                /\ cache'[k].condition = cache[k].condition
        /\ chk'.before = cache']_vars

\* canSend has returned true for a condition whose record had expired, and
\* the record is still there.
C35_Witness ==
    /\ chk.op = "canSend"
    /\ chk.result
    /\ chk.at = now
    /\ chk.condition \in DOMAIN cache
    /\ cache = chk.before
    /\ Cardinality(DOMAIN cache) = 2

\* C38: with cooldownMinutes = 0 no dispatch is suppressed: canSend(c, 0) is
\* true in every cache state, and every cycle that observed a breach
\* attempted a delivery.
C38_ZeroCooldownNeverSuppresses ==
    cooldownMinutes = 0 =>
        /\ \A c \in Conditions : canSend(c, 0)
        /\ last.outcome # "suppressed"
        /\ last.cond \in Conditions => last.sends >= 1

\* With no cooldown, a second email for the condition was delivered in the
\* minute of the first.
C38_Witness ==
    /\ cooldownMinutes = 0
    /\ last.delivered
    /\ last.gap = 0
    /\ cache[last.cond].timestamp = now

\* C40: size() is the number of distinct conditions that have a record
\* (recording a condition again does not increase it); clear() removes every
\* record, after which size() is 0 and canSend is true for every condition.
C40_SizeAndClear ==
    /\ [](chk.op = "size" =>
            chk.count = Cardinality({c \in Conditions : c \in DOMAIN chk.before}))
    /\ [](chk.op = "size" => \A k \in DOMAIN chk.before : k \in Conditions)
    /\ [][\A c \in Conditions :
            (RecordStep(c) /\ c \in DOMAIN cache) => size' = size]_vars
    /\ [][chk'.op = "clear" /\ chk'.at = now /\ now' = now =>
            /\ DOMAIN cache' = {}
            /\ size' = 0
            /\ \A c \in Conditions, m \in CooldownArgs : canSend(c, m)']_vars

\* clear() has emptied a cache of two records.
C40_Witness ==
    /\ chk.op = "clear"
    /\ Cardinality(DOMAIN chk.before) = 2
    /\ \E c \in DOMAIN chk.before : chk.before[c].timestamp = chk.at
    /\ size = 0

\* A step in which start() call s resumes after its immediate check.
StartResumes(s) == start[s].pc = "awaiting" /\ start'[s].pc = "done"

\* C36: if every fetch and every send returns and stop() is not called,
\* start() terminates with the scheduler Running and the recurring job
\* registered, after one check with at most two send attempts and one wait
\* of 5 minutes.
C36_StartTerminates ==
    /\ \A s \in StartIds :
        (start[s].pc = "awaiting" /\ stops = 0) ~>
            (stops > 0 \/ (start[s].pc = "done" /\ isRunning /\ cronTask = s
                           /\ task[s] = "active"))
    /\ [][\A s \in StartIds :
            (StartResumes(s) /\ stops = 0) =>
                /\ start'[s].checks = 1
                /\ last'.sends <= 2
                /\ last'.waited \in {-1, RetryDelayMinutes}
                /\ last'.sends = 2 <=> last'.waited = RetryDelayMinutes]_vars

\* start() has completed although both send attempts of its check failed.
C36_Witness ==
    /\ stops = 0
    /\ start[1].pc = "done" /\ ~start[1].noop
    /\ isRunning /\ cronTask = 1 /\ task[1] = "active"
    /\ last.outcome = "failed"
    /\ last.sends = 2
    /\ last.waited = RetryDelayMinutes
    /\ \A i \in CycleIds : cycle[i].kind # "cron"

\* start() call 2 was made after call 1 had completed and stop() had
\* cancelled its job, and it has completed.
Restarted ==
    /\ start[1].pc = "done" /\ ~start[1].noop
    /\ task[1] = "stopped"
    /\ start[2].pc = "done" /\ ~start[2].noop

\* C39: after a completed start() and a stop(), a further start() makes the
\* scheduler Running again with exactly one immediate check and exactly one
\* registered job, and neither stop() nor start() resets the cache.
C39_RestartKeepsCache ==
    /\ []((Restarted /\ stops = 1) =>
            /\ isRunning
            /\ start[2].checks = 1
            /\ cronTask = 2
            /\ RegisteredJobs = {2})
    /\ [][(StopCalled \/ \E s \in StartIds : StartCalled(s)) =>
            /\ cache' = cache
            /\ \A c \in Conditions :
                    canSend(c, cooldownMinutes)' <=> canSend(c, cooldownMinutes)]_vars

\* The restart has completed, and its immediate check was suppressed by the
\* record written before the stop.
C39_Witness ==
    /\ Restarted
    /\ stops = 1
    /\ isRunning
    /\ RegisteredJobs = {2}
    /\ last.outcome = "suppressed"
    /\ last.cond \in DOMAIN cache

\* The interval, in minutes, is positive and below 60.
SubHour(h) == ~h.nan /\ 0 < h.v * 6 /\ h.v * 6 < 60

\* C37 as stated: when the configured interval in minutes is below 60, the
\* scheduler uses the per-minute cadence `*/M * * * *`.
C37_SubHourPerMinute ==
    (chk.op = "new Scheduler" /\ SubHour(chk.input)) =>
        /\ ~chk.result.threw
        /\ buildCronExpression(chk.input) =
                [minute |-> CronEvery(chk.input.v * 6), hour |-> CronAny]

\* C37: a Scheduler cannot be constructed with an interval below 60 minutes,
\* and every schedule a constructed Scheduler builds has the hourly form
\* `0 */N * * *`: the per-minute cadence is never used.
C37_SubHourRejected ==
    /\ (chk.op = "new Scheduler" /\ SubHour(chk.input)) => chk.result.threw
    /\ chk.op = "buildCronExpression" =>
            /\ ~SubHour(chk.input)
            /\ chk.result = [minute |-> CronAt(0), hour |-> CronEvery(chk.input.v)]

\* The constructor has rejected an interval of 42 minutes, for which
\* buildCronExpression would give the per-minute form.
C37_Witness ==
    /\ chk.op = "new Scheduler"
    /\ chk.input = Num(7)
    /\ chk.result.threw
    /\ buildCronExpression(chk.input) = [minute |-> CronEvery(42), hour |-> CronAny]

====
